---- MODULE Spec2Model ----
\* Model of the live-refresh loop of examples/query-kvv-departures.rs:
\* the LiveStatus state machine, the hand-polled request future and the
\* scrolling marquee drawn from the same loop.
\*
\* Text is modelled as a sequence of Unicode code points, so that the
\* character count (str.chars().count()) and the UTF-8 byte length
\* (str.len()) are different quantities, as in the program.
\* Time is in milliseconds since the loop was entered.
EXTENDS Integers, Sequences, FiniteSets, TLC

\* ---------------------------------------------------------------- bounds
\* Number of loop iterations explored.
MaxTicks == 16

\* ------------------------------------------------------ program constants
\* Duration::from_nanos(60_000_000_000), in milliseconds.
update_interval == 60000
\* let scroll_width = 40;
scroll_width == 40
\* std::thread::sleep(Duration::from_nanos(75_000_000)), in milliseconds.
FrameQuantum == 75
\* i32::MAX and i32::MIN, the range of str::parse::<i32>.
I32Max == 2147483647
I32Min == (-2147483647) - 1

\* ------------------------------------------------------------------ text
\* Bytes of the UTF-8 encoding of one code point.
Utf8Len(c) == IF c < 128 THEN 1 ELSE IF c < 2048 THEN 2 ELSE IF c < 65536 THEN 3 ELSE 4

RECURSIVE ByteLen(_)
\* String::len(): the length in bytes.
ByteLen(s) == IF s = <<>> THEN 0 ELSE Utf8Len(Head(s)) + ByteLen(Tail(s))

\* str.chars().count(): the length in characters.
CharCount(s) == Len(s)

\* The string literals of the program.
LitSep == <<32, 58, 58, 32, 40>>
LitMid == <<41, 32, 91>>
LitEnd == <<93, 32>>
LitNow == <<110, 111, 119>>
LitCancelled == <<99, 97, 110, 99, 101, 108, 108, 101, 100>>
LitUnknown == <<117, 110, 107, 110, 111, 119, 110>>
LitMin == <<32, 109, 105, 110>>
LitSentinel == <<45, 57, 57, 57, 57>>
\* The arguments main matches: "--help", "-h", "-n", "-station", "--live", "-l".
ArgHelpLong == <<45, 45, 104, 101, 108, 112>>
ArgHelpShort == <<45, 104>>
ArgN == <<45, 110>>
ArgStation == <<45, 115, 116, 97, 116, 105, 111, 110>>
ArgLiveLong == <<45, 45, 108, 105, 118, 101>>
ArgLiveShort == <<45, 108>>

IsDigit(c) == c >= 48 /\ c <= 57

Min(a, b) == IF a <= b THEN a ELSE b

RECURSIVE Decimal(_)
\* The decimal rendering of a natural number, as {n} formats it.
Decimal(k) == IF k < 10 THEN << 48 + k >> ELSE Decimal(k \div 10) \o << 48 + (k % 10) >>

RECURSIVE ParseDigits(_, _, _)
\* Accumulates the digits of s onto acc as i32::from_str does: towards
\* +infinity for a non-negative number, towards -infinity after a '-';
\* a non-digit or a value outside i32 is an error.
ParseDigits(s, acc, neg) ==
    IF s = <<>> THEN [ok |-> TRUE, val |-> acc]
    ELSE IF ~IsDigit(Head(s)) THEN [ok |-> FALSE, val |-> 0]
    ELSE LET d == Head(s) - 48 IN
         IF neg
         THEN IF acc < (I32Min + d + 9) \div 10
              THEN [ok |-> FALSE, val |-> 0]
              ELSE ParseDigits(Tail(s), acc * 10 - d, neg)
         ELSE IF acc > (I32Max - d) \div 10
              THEN [ok |-> FALSE, val |-> 0]
              ELSE ParseDigits(Tail(s), acc * 10 + d, neg)

\* c.parse::<i32>(): an optional sign, then at least one digit.
ParseI32(s) ==
    IF s = <<>> THEN [ok |-> FALSE, val |-> 0]
    ELSE IF Head(s) = 45 \/ Head(s) = 43
         THEN IF Tail(s) = <<>> THEN [ok |-> FALSE, val |-> 0]
              ELSE ParseDigits(Tail(s), 0, Head(s) = 45)
         ELSE ParseDigits(s, 0, FALSE)

\* c.parse::<i32>().unwrap_or(0)
ParseOrZero(s) == IF ParseI32(s).ok THEN ParseI32(s).val ELSE 0

\* Variant: only a negative number is "now".
countdown_NegativeOnly(c) ==
    IF c = LitSentinel THEN LitCancelled
    ELSE IF c = <<>> THEN LitUnknown
    ELSE IF ParseOrZero(c) < 0 THEN LitNow
    ELSE c \o LitMin

\* fn countdown(countdown: &str) -> String
countdown(c) ==
    IF c = LitSentinel THEN LitCancelled
    ELSE IF c = <<>> THEN LitUnknown
    ELSE IF ParseOrZero(c) <= 0 THEN LitNow
    ELSE c \o LitMin

\* format!(" :: ({}) [{}] {}", countdown, symbol, direction)
Segment(dep) ==
    LitSep \o countdown(dep.countdown) \o LitMid \o dep.symbol \o LitEnd \o dep.direction

RECURSIVE parse_response_Reversed(_)
\* Variant: the segments are folded in reverse order.
parse_response_Reversed(data) ==
    IF data = <<>> THEN <<>>
    ELSE parse_response_Reversed(Tail(data)) \o Segment(Head(data))

RECURSIVE parse_response(_)
\* fn parse_response: the segments of departure_list, in order, folded
\* onto an empty string.
parse_response(data) ==
    IF data = <<>> THEN <<>>
    ELSE Segment(Head(data)) \o parse_response(Tail(data))

\* ---------------------------------------------------------------- inputs
Dep(c, sym, dir) == [countdown |-> c, symbol |-> sym, direction |-> dir]

\* Departure lists a completed request can deliver: none; one departure
\* (13 characters, ASCII); one whose direction is a two-byte character
\* (14 characters, 15 bytes); two cancelled departures (42 characters).
Payloads ==
    { <<>>,
      << Dep(<<48>>, <<>>, <<>>) >>,
      << Dep(<<48>>, <<>>, <<246>>) >>,
      << Dep(LitSentinel, <<83>>, <<65>>), Dep(LitSentinel, <<83>>, <<66>>) >> }

\* Time one iteration takes: the sleep lasts at least the frame quantum and
\* may last longer. With these two values the time since a request started
\* reaches the refresh interval exactly (75 + 59925) and passes it.
Delays == { FrameQuantum, update_interval - FrameQuantum }

\* ----------------------------------------------------------------- state
VARIABLES
    status,             \* let mut status: LiveStatus
    str,                \* let mut str: the display line
    response,           \* the departure list of the last Poll::Ready(Ok(..))
    scroll_offset,      \* let mut scroll_offset
    now,                \* the value Instant::now() returns in the next iteration
    pc,                 \* "loop" while the loop runs, "exited" after main returned
    exit_code,          \* the process status once main has returned
    out,                \* the lines printed by the last iteration
    futures,            \* the request futures created and not yet dropped
    requests_started,   \* number of calls of request.clone().get()
    last_poll,          \* what the poll of the last iteration returned
    polls_in_tick,      \* number of polls the last iteration made
    polled_after_ready, \* a future was polled after it had returned Ready
    tick,               \* number of iterations begun
    last_started_at,    \* the value of Instant::now() when the last request was created
    argv,               \* std::env::args() after the executable's name
    args,               \* the arguments not yet taken by args.next()
    n,                  \* let mut n
    station_id,         \* let mut station_id: <<>> for None, <<id>> for Some(id)
    live                \* let mut live

vars == << status, str, response, scroll_offset, now, pc, exit_code, out, futures,
           requests_started, last_poll, polls_in_tick, polled_after_ready, tick,
           last_started_at, argv, args, n, station_id, live >>

\* enum LiveStatus<T>
InitiateUpdate == [tag |-> "InitiateUpdate"]
UpdateInProgress(fut, t) == [tag |-> "UpdateInProgress", fut |-> fut, update_time |-> t]
Idle(t) == [tag |-> "Idle", instant |-> t]

\* request.clone().get(): a fresh future, not yet completed.
NewFuture(id) == [id |-> id, done |-> FALSE]

\* The futures a status value owns; they are dropped with it.
Owned(st) == IF st.tag = "UpdateInProgress" THEN {st.fut.id} ELSE {}

\* The effect of one arm of the match on (status, str): started says that a
\* request was created, failed that `?` returned the error from main.
Effect(st, s, started, failed) ==
    [status |-> st, str |-> s, started |-> started, failed |-> failed]

\* Variant: starting an update blanks the line.
ArmInitiateUpdate_ClearsLine(s, t, id) ==
    Effect(UpdateInProgress(NewFuture(id), t), <<>>, TRUE, FALSE)

\* LiveStatus::InitiateUpdate => ...
ArmInitiateUpdate(s, t, id) ==
    Effect(UpdateInProgress(NewFuture(id), t), s, TRUE, FALSE)

\* Variant: Idle carries the time of the completion.
ArmReadyOk_CompletionTime(fut, update_time, s, t, id, data) ==
    Effect(Idle(t), parse_response(data), FALSE, FALSE)

\* Variant: the line is not recomputed from the response.
ArmReadyOk_KeepsLine(fut, update_time, s, t, id, data) ==
    Effect(Idle(update_time), s, FALSE, FALSE)

\* Variant: the status is left in UpdateInProgress with the completed future.
ArmReadyOk_StaysInProgress(fut, update_time, s, t, id, data) ==
    Effect(UpdateInProgress(fut, update_time), parse_response(data), FALSE, FALSE)

\* Poll::Ready(Ok(data)) => ...
ArmReadyOk(fut, update_time, s, t, id, data) ==
    Effect(Idle(update_time), parse_response(data), FALSE, FALSE)

\* Variant: the error is dropped and the request is started again.
ArmReadyErr_Retries(fut, update_time, s, t, id) ==
    Effect(InitiateUpdate, s, FALSE, FALSE)

\* Poll::Ready(Err(e)) => res? returns Err(e) from main
ArmReadyErr(fut, update_time, s, t, id) ==
    Effect(UpdateInProgress(fut, update_time), s, FALSE, TRUE)

\* Variant: the line is blanked while the request is pending.
ArmPending_ClearsLine(fut, update_time, s, t, id) ==
    Effect(UpdateInProgress(fut, update_time), <<>>, FALSE, FALSE)

\* Poll::Pending => ()
ArmPending(fut, update_time, s, t, id) ==
    Effect(UpdateInProgress(fut, update_time), s, FALSE, FALSE)

\* Variant: >= in place of >.
IntervalElapsed_AtInterval(instant, t) == t - instant >= update_interval

\* Variant: the subtraction is the wrong way round.
IntervalElapsed_Reversed(instant, t) == instant - t > update_interval

\* The guard of the Idle arm.
IntervalElapsed(instant, t) == t - instant > update_interval

\* Variant: the expired Idle arm starts the request itself.
ArmIdle_StartsRequest(instant, s, t, id) ==
    IF t - instant > update_interval
    THEN Effect(UpdateInProgress(NewFuture(id), t), s, TRUE, FALSE)
    ELSE Effect(Idle(instant), s, FALSE, FALSE)

\* LiveStatus::Idle(instant) if ... => ...   and the arm  _ => ()
ArmIdle(instant, s, t, id) ==
    IF IntervalElapsed(instant, t)
    THEN Effect(InitiateUpdate, s, FALSE, FALSE)
    ELSE Effect(Idle(instant), s, FALSE, FALSE)

\* ------------------------------------------------------------- the marquee
\* Variant: the window stops at the end of a line shorter than width.
Window_Truncated(s, offset, width) ==
    [k \in 1..Min(width, CharCount(s)) |-> s[((offset + (k - 1)) % CharCount(s)) + 1]]

\* Variant: the window starts one character late.
Window_Shifted(s, offset, width) ==
    [k \in 1..width |-> s[((offset + k) % CharCount(s)) + 1]]

\* The characters printed by the for loop: width characters from offset on,
\* each taken at index i % n_chars.
Window(s, offset, width) ==
    [k \in 1..width |-> s[((offset + (k - 1)) % CharCount(s)) + 1]]

\* Variant: the offset is never taken back.
NextOffset_NoWrap(s, offset) == offset + 1

\* scroll_offset += 1; if scroll_offset >= str.len() { scroll_offset = 1; }
NextOffset(s, offset) ==
    IF offset + 1 >= ByteLen(s) THEN 1 ELSE offset + 1

\* Variant: the offset also moves when the line is empty.
Draw_CountsEmpty(s, offset) ==
    IF CharCount(s) > 0
    THEN [out |-> << Window(s, offset, scroll_width) >>, scroll_offset |-> NextOffset(s, offset)]
    ELSE [out |-> <<>>, scroll_offset |-> offset + 1]

\* The drawing step: what is printed and the offset afterwards.
Draw(s, offset) ==
    IF CharCount(s) > 0
    THEN [out |-> << Window(s, offset, scroll_width) >>, scroll_offset |-> NextOffset(s, offset)]
    ELSE [out |-> <<>>, scroll_offset |-> offset]

\* --------------------------------------------------------------- the loop
\* The locals of the loop as declared before it, nothing printed, no
\* request made.
LoopLocals ==
    /\ status = InitiateUpdate
    /\ str = <<>>
    /\ scroll_offset = 0
    /\ now = 0
    /\ exit_code = 0
    /\ out = <<>>
    /\ futures = {}
    /\ requests_started = 0
    /\ last_poll = "none"
    /\ polls_in_tick = 0
    /\ polled_after_ready = FALSE
    /\ tick = 0
    /\ last_started_at = 0

\* The loop is entered after the arguments `-station 7 -l` were parsed.
Init ==
    /\ LoopLocals
    /\ response = <<>>
    /\ pc = "loop"
    /\ argv = << ArgStation, <<55>>, ArgLiveShort >>
    /\ args = <<>>
    /\ n = 2
    /\ station_id = << 7 >>
    /\ live = TRUE

\* The rest of an iteration after the match: the assignment of status drops
\* the value it replaces; an error leaves main, which drops everything;
\* otherwise the frame is drawn and the loop sleeps for d.
Iterate(e, d) ==
    /\ status' = e.status
    /\ str' = e.str
    /\ requests_started' = requests_started + (IF e.started THEN 1 ELSE 0)
    /\ tick' = tick + 1
    /\ last_started_at' = (IF e.started THEN now ELSE last_started_at)
    /\ UNCHANGED << argv, args, n, station_id, live >>
    /\ IF e.failed
       THEN /\ pc' = "exited"
            /\ exit_code' = 1
            /\ futures' = {}
            /\ out' = <<>>
            /\ UNCHANGED << scroll_offset, now >>
       ELSE /\ futures' = (futures \ (Owned(status) \ Owned(e.status)))
                              \cup (IF e.started THEN {requests_started + 1} ELSE {})
            /\ out' = Draw(e.str, scroll_offset).out
            /\ scroll_offset' = Draw(e.str, scroll_offset).scroll_offset
            /\ now' = now + d
            /\ UNCHANGED << pc, exit_code >>

Running == pc = "loop" /\ tick < MaxTicks

NoPoll ==
    /\ last_poll' = "none"
    /\ polls_in_tick' = 0
    /\ UNCHANGED << polled_after_ready, response >>

\* response_pin.as_mut().poll(&mut cx), returning result.
Polled(result) ==
    /\ last_poll' = result
    /\ polls_in_tick' = 1
    /\ polled_after_ready' = (polled_after_ready \/ status.fut.done)

\* The future after a poll that returned Ready.
Completed(fut) == [fut EXCEPT !.done = TRUE]

\* An iteration that finds InitiateUpdate.
LoopInitiateUpdate(d) ==
    /\ Running
    /\ status.tag = "InitiateUpdate"
    /\ NoPoll
    /\ Iterate(ArmInitiateUpdate(str, now, requests_started + 1), d)

\* An iteration whose poll returns Pending.
LoopPollPending(d) ==
    /\ Running
    /\ status.tag = "UpdateInProgress"
    /\ Polled("Pending")
    /\ UNCHANGED response
    /\ Iterate(ArmPending(status.fut, status.update_time, str, now, requests_started + 1), d)

\* An iteration whose poll returns Ready(Ok(data)).
LoopPollReadyOk(data, d) ==
    /\ Running
    /\ status.tag = "UpdateInProgress"
    /\ Polled("ReadyOk")
    /\ response' = data
    /\ Iterate(ArmReadyOk(Completed(status.fut), status.update_time, str, now,
                          requests_started + 1, data), d)

\* An iteration whose poll returns Ready(Err(e)).
LoopPollReadyErr ==
    /\ Running
    /\ status.tag = "UpdateInProgress"
    /\ Polled("ReadyErr")
    /\ UNCHANGED response
    /\ Iterate(ArmReadyErr(Completed(status.fut), status.update_time, str, now,
                           requests_started + 1), FrameQuantum)

\* An iteration that finds Idle, after the interval or before.
LoopIdle(d) ==
    /\ Running
    /\ status.tag = "Idle"
    /\ NoPoll
    /\ Iterate(ArmIdle(status.instant, str, now, requests_started + 1), d)

Next ==
    \/ \E d \in Delays : LoopInitiateUpdate(d)
    \/ \E d \in Delays : LoopPollPending(d)
    \/ \E d \in Delays, data \in Payloads : LoopPollReadyOk(data, d)
    \/ LoopPollReadyErr
    \/ \E d \in Delays : LoopIdle(d)

Spec == Init /\ [][Next]_vars

\* ---------------------------------------------------------------- typing
TypeOK ==
    /\ status.tag \in {"InitiateUpdate", "UpdateInProgress", "Idle"}
    /\ scroll_offset \in Nat
    /\ pc \in {"loop", "exited"}
    /\ Len(out) <= 1

\* ------------------------------------------- the loop without an end
\* The loop as above, run for ever. Only differences of Instants are used by
\* the program, so the clock is read relative to the creation of the last
\* request (now is the time since then, no longer told apart once it has
\* reached MaxElapsedMs, which is beyond the refresh interval) and the
\* counters tick, requests_started and last_started_at are not kept. As C18
\* assumes, a request completes successfully.
MaxElapsedMs == 130000

\* Time one iteration takes: a hundred frame quanta, or just below the interval.
LiveDelays == { 100 * FrameQuantum, update_interval - FrameQuantum }

IterateLive(e, d) ==
    /\ status' = e.status
    /\ str' = e.str
    /\ futures' = (futures \ (Owned(status) \ Owned(e.status)))
                      \cup (IF e.started THEN {requests_started + 1} ELSE {})
    /\ out' = Draw(e.str, scroll_offset).out
    /\ scroll_offset' = Draw(e.str, scroll_offset).scroll_offset
    /\ now' = Min(MaxElapsedMs, (IF e.started THEN 0 ELSE now) + d)
    /\ UNCHANGED << pc, exit_code, requests_started, tick, last_started_at,
                    argv, args, n, station_id, live >>

LiveInitiateUpdate(d) ==
    /\ pc = "loop"
    /\ status.tag = "InitiateUpdate"
    /\ NoPoll
    /\ IterateLive(ArmInitiateUpdate(str, 0, requests_started + 1), d)

LivePollPending(d) ==
    /\ pc = "loop"
    /\ status.tag = "UpdateInProgress"
    /\ Polled("Pending")
    /\ UNCHANGED response
    /\ IterateLive(ArmPending(status.fut, status.update_time, str, now,
                              requests_started + 1), d)

LivePollReadyOk(data, d) ==
    /\ pc = "loop"
    /\ status.tag = "UpdateInProgress"
    /\ Polled("ReadyOk")
    /\ response' = data
    /\ IterateLive(ArmReadyOk(Completed(status.fut), status.update_time, str, now,
                              requests_started + 1, data), d)

LiveIdle(d) ==
    /\ pc = "loop"
    /\ status.tag = "Idle"
    /\ NoPoll
    /\ IterateLive(ArmIdle(status.instant, str, now, requests_started + 1), d)

NextLive ==
    \/ \E d \in LiveDelays : LiveInitiateUpdate(d)
    \/ \E d \in LiveDelays : LivePollPending(d)
    \/ \E d \in LiveDelays, data \in Payloads : LivePollReadyOk(data, d)
    \/ \E d \in LiveDelays : LiveIdle(d)

\* Iterations keep occurring, and a request in progress completes.
SpecLive ==
    /\ Init
    /\ [][NextLive]_vars
    /\ WF_vars(NextLive)
    /\ WF_vars(\E d \in LiveDelays, data \in Payloads : LivePollReadyOk(data, d))

\* ------------------------------------------------ rendering on its own
\* Longest countdown string enumerated, and longest departure list.
MaxCountdownLen == 3
MaxDeps == 3

RECURSIVE SeqsUpTo(_, _)
\* The sequences over A of length at most k.
SeqsUpTo(A, k) ==
    IF k = 0 THEN { <<>> }
    ELSE LET S == SeqsUpTo(A, k - 1) IN S \cup { Append(q, a) : q \in S, a \in A }

\* '-', '+', '0', '5', 'x'
CountdownAlphabet == { 45, 43, 48, 53, 120 }

\* "-9999", "-9998", "2147483647", "2147483648", "-2147483648",
\* "-2147483649", "0000000005"
LongCountdowns ==
    { LitSentinel,
      <<45, 57, 57, 57, 56>>,
      <<50, 49, 52, 55, 52, 56, 51, 54, 52, 55>>,
      <<50, 49, 52, 55, 52, 56, 51, 54, 52, 56>>,
      <<45, 50, 49, 52, 55, 52, 56, 51, 54, 52, 56>>,
      <<45, 50, 49, 52, 55, 52, 56, 51, 54, 52, 57>>,
      <<48, 48, 48, 48, 48, 48, 48, 48, 48, 53>> }

CountdownInputs == SeqsUpTo(CountdownAlphabet, MaxCountdownLen) \cup LongCountdowns

\* Departures "5"/"S1"/"A", "-9999"/"2"/"B" and ""/"E"/"o-umlaut".
DepChoices ==
    { Dep(<<53>>, <<83, 49>>, <<65>>),
      Dep(LitSentinel, <<50>>, <<66>>),
      Dep(<<>>, <<69>>, <<246>>) }

\* Departure lists handed to parse_response: one departure per countdown
\* string, with empty symbol and direction, and every list of at most
\* MaxDeps departures.
RenderInputs ==
    { << Dep(c, <<>>, <<>>) >> : c \in CountdownInputs } \cup SeqsUpTo(DepChoices, MaxDeps)

InitRender ==
    /\ LoopLocals
    /\ response \in RenderInputs
    /\ pc = "render"
    /\ argv = <<>>
    /\ args = <<>>
    /\ n = 2
    /\ station_id = << 7 >>
    /\ live = FALSE

\* str = parse_response(&data)
Render ==
    /\ pc = "render"
    /\ str' = parse_response(response)
    /\ pc' = "rendered"
    /\ UNCHANGED << status, response, scroll_offset, now, exit_code, out, futures,
                    requests_started, last_poll, polls_in_tick, polled_after_ready,
                    tick, last_started_at, argv, args, n, station_id, live >>

SpecRender == InitRender /\ [][Render]_vars

\* ----------------------------------------------------- the command line
\* Longest argument list enumerated.
MaxArgs == 3

\* The six options, the number "7" and the word "x".
ArgTokens ==
    { ArgHelpLong, ArgHelpShort, ArgN, ArgStation, ArgLiveLong, ArgLiveShort,
      <<55>>, <<120>> }

ArgLists == SeqsUpTo(ArgTokens, MaxArgs)

\* Status of a process that panicked.
PanicStatus == 101

\* The text println! prints for --help, shortened to "Usage: " and the
\* value of n it interpolates.
UsageText(cn) == <<85, 115, 97, 103, 101, 58, 32>> \o Decimal(cn)

\* args.next().and_then(|s| s.parse().ok()): <<>> for None, <<v>> for Some(v).
\* (The integer type of n is the one of the request builder's limit; the
\* argument lists enumerated hold no number on which the integer types differ.)
NextValue(rest) ==
    IF rest = <<>> THEN <<>>
    ELSE IF ParseI32(Head(rest)).ok THEN << ParseI32(Head(rest)).val >> ELSE <<>>

\* What one iteration of the while-let does: kind is "next" to go on,
\* "help" when the usage was printed and main returned Ok, "panic".
ArgResult(kind, rest, cn, cs, cl) ==
    [kind |-> kind, args |-> rest, n |-> cn, station_id |-> cs, live |-> cl]

\* Variant: the usage is not printed and parsing goes on.
OnHelp_Continues(rest, cn, cs, cl) == ArgResult("next", rest, cn, cs, cl)

\* "--help" | "-h" => { println!(..); return Ok(()) }
OnHelp(rest, cn, cs, cl) == ArgResult("help", rest, cn, cs, cl)

\* "-n" => n = args.next().and_then(..).expect(..)
OnN(rest, cn, cs, cl) ==
    IF NextValue(rest) = <<>>
    THEN ArgResult("panic", IF rest = <<>> THEN rest ELSE Tail(rest), cn, cs, cl)
    ELSE ArgResult("next", Tail(rest), NextValue(rest)[1], cs, cl)

\* "-station" => station_id = Some(args.next().and_then(..).expect(..))
OnStation(rest, cn, cs, cl) ==
    IF NextValue(rest) = <<>>
    THEN ArgResult("panic", IF rest = <<>> THEN rest ELSE Tail(rest), cn, cs, cl)
    ELSE ArgResult("next", Tail(rest), cn, NextValue(rest), cl)

\* "--live" | "-l" => live = true
OnLive(rest, cn, cs, cl) == ArgResult("next", rest, cn, cs, TRUE)

\* Variant: an unknown argument is skipped.
OnUnknown_Skips(rest, cn, cs, cl) == ArgResult("next", rest, cn, cs, cl)

\* _ => panic!("unknown argument")
OnUnknown(rest, cn, cs, cl) == ArgResult("panic", rest, cn, cs, cl)

\* Where main goes after the while-let: the panic of the station check, the
\* one-shot fetch or the loop.
AfterArgs(cs, cl) ==
    IF cs = <<>> THEN "panicked" ELSE IF cl THEN "loop" ELSE "oneshot"

\* Variant: an error of the one-shot fetch prints an empty summary and
\* returns Ok.
OneShot_PrintsOnError(ok, data) ==
    IF ok THEN [out |-> << parse_response(data) >>, exit_code |-> 0]
    ELSE [out |-> << <<>> >>, exit_code |-> 0]

\* println!("{}", parse_response(&request.get().await?)); return Ok(())
OneShot(ok, data) ==
    IF ok THEN [out |-> << parse_response(data) >>, exit_code |-> 0]
    ELSE [out |-> <<>>, exit_code |-> 1]

InitCli ==
    /\ LoopLocals
    /\ response = <<>>
    /\ pc = "args"
    /\ argv \in ArgLists
    /\ args = argv
    /\ n = 2
    /\ station_id = <<>>
    /\ live = FALSE

\* The effect of one iteration of the while-let on the state.
ApplyArg(r) ==
    /\ args' = r.args
    /\ n' = r.n
    /\ station_id' = r.station_id
    /\ live' = r.live
    /\ pc' = (IF r.kind = "help" THEN "exited"
              ELSE IF r.kind = "panic" THEN "panicked" ELSE "args")
    /\ exit_code' = (IF r.kind = "help" THEN 0
                     ELSE IF r.kind = "panic" THEN PanicStatus ELSE exit_code)
    /\ out' = (IF r.kind = "help" THEN << UsageText(n) >> ELSE out)
    /\ UNCHANGED << status, str, response, scroll_offset, now, futures, requests_started,
                    last_poll, polls_in_tick, polled_after_ready, tick, last_started_at,
                    argv >>

HasArg == pc = "args" /\ args # <<>>

ArgHelp ==
    /\ HasArg
    /\ Head(args) \in { ArgHelpLong, ArgHelpShort }
    /\ ApplyArg(OnHelp(Tail(args), n, station_id, live))

ArgNumber ==
    /\ HasArg
    /\ Head(args) = ArgN
    /\ ApplyArg(OnN(Tail(args), n, station_id, live))

ArgStationId ==
    /\ HasArg
    /\ Head(args) = ArgStation
    /\ ApplyArg(OnStation(Tail(args), n, station_id, live))

ArgLive ==
    /\ HasArg
    /\ Head(args) \in { ArgLiveLong, ArgLiveShort }
    /\ ApplyArg(OnLive(Tail(args), n, station_id, live))

ArgUnknown ==
    /\ HasArg
    /\ Head(args) \notin { ArgHelpLong, ArgHelpShort, ArgN, ArgStation,
                            ArgLiveLong, ArgLiveShort }
    /\ ApplyArg(OnUnknown(Tail(args), n, station_id, live))

\* The station check and the building of the request, after the last argument.
ArgsDone ==
    /\ pc = "args"
    /\ args = <<>>
    /\ pc' = AfterArgs(station_id, live)
    /\ exit_code' = (IF AfterArgs(station_id, live) = "panicked" THEN PanicStatus ELSE exit_code)
    /\ UNCHANGED << status, str, response, scroll_offset, now, out, futures,
                    requests_started, last_poll, polls_in_tick, polled_after_ready,
                    tick, last_started_at, argv, args, n, station_id, live >>

\* The one-shot fetch: the request is made and awaited, then main returns.
OneShotFetch(ok, data) ==
    /\ pc = "oneshot"
    /\ requests_started' = requests_started + 1
    /\ last_started_at' = now
    /\ last_poll' = (IF ok THEN "ReadyOk" ELSE "ReadyErr")
    /\ response' = (IF ok THEN data ELSE response)
    /\ out' = OneShot(ok, data).out
    /\ exit_code' = OneShot(ok, data).exit_code
    /\ pc' = "exited"
    /\ UNCHANGED << status, str, scroll_offset, now, futures, polls_in_tick,
                    polled_after_ready, tick, argv, args, n, station_id, live >>

\* main from its first line up to the first iteration of the loop.
NextCli ==
    \/ ArgHelp
    \/ ArgNumber
    \/ ArgStationId
    \/ ArgLive
    \/ ArgUnknown
    \/ ArgsDone
    \/ \E data \in Payloads : OneShotFetch(TRUE, data)
    \/ OneShotFetch(FALSE, <<>>)
    \/ \E d \in Delays : LoopInitiateUpdate(d)

SpecCli == InitCli /\ [][NextCli]_vars

\* ------------------------------------------------------------ properties
Ready == {"ReadyOk", "ReadyErr"}

\* C1: while the loop runs at most one request future is alive, one is
\* alive exactly when status is UpdateInProgress, and a request is created
\* only by an iteration that found InitiateUpdate with no future alive.
OneRequestInFlight ==
    /\ [](Cardinality(futures) <= 1)
    /\ [](pc = "loop" => (futures # {} <=> status.tag = "UpdateInProgress"))
    /\ [][requests_started' # requests_started =>
            /\ status.tag = "InitiateUpdate"
            /\ futures = {}
            /\ requests_started' = requests_started + 1]_vars

\* A second request is in flight.
OneRequestInFlight_Witness ==
    /\ requests_started = 2
    /\ futures = {2}
    /\ status.tag = "UpdateInProgress"

\* C2 as stated: on the iteration whose poll returns Ready(Ok), status
\* becomes Idle carrying the time of that iteration.
IdleSinceCompletion ==
    [][last_poll' = "ReadyOk" => status' = Idle(now)]_vars

\* C2 amended: on the iteration whose poll returns Ready(Ok), status becomes
\* Idle carrying the time the request was started, which is earlier than the
\* time of that iteration; after a request that took longer than the refresh
\* interval the next iteration already leaves Idle.
IdleSinceStart ==
    /\ [][last_poll' = "ReadyOk" =>
            /\ status.tag = "UpdateInProgress"
            /\ status' = Idle(status.update_time)
            /\ status.update_time < now]_vars
    /\ [][(last_poll = "ReadyOk" /\ now - status.instant > update_interval) =>
            status' = InitiateUpdate]_vars

\* A request has completed more than the refresh interval after its start.
IdleSinceStart_Witness ==
    /\ last_poll = "ReadyOk"
    /\ status.tag = "Idle"
    /\ now - status.instant > update_interval + update_interval

\* C3: an iteration whose poll returns Ready(Err) ends the process with a
\* non-zero status, prints nothing and starts no request, and nothing is
\* printed or started afterwards.
FailureEndsRun ==
    /\ [](last_poll = "ReadyErr" => pc = "exited" /\ exit_code # 0 /\ out = <<>>)
    /\ [](exit_code # 0 => last_poll = "ReadyErr")
    /\ [][last_poll' = "ReadyErr" => requests_started' = requests_started]_vars
    /\ [][pc = "exited" => UNCHANGED << requests_started, out, status >>]_vars

\* A refresh failed while a line was being displayed.
FailureEndsRun_Witness ==
    /\ last_poll = "ReadyErr"
    /\ pc = "exited"
    /\ str # <<>>
    /\ requests_started = 2

\* C4 as stated: after an iteration that drew a frame the cursor is below the
\* line's character count; on an unchanged line it went up by one, and from
\* the last character it went to 0.
CursorWrapsAtCharCount ==
    [][out' # <<>> =>
        /\ scroll_offset' < CharCount(str')
        /\ (str' = str /\ scroll_offset + 1 < CharCount(str))
              => scroll_offset' = scroll_offset + 1
        /\ (str' = str /\ scroll_offset + 1 = CharCount(str))
              => scroll_offset' = 0]_vars

\* C5 as stated: on an iteration whose poll returns Ready(Ok) the line is
\* recomputed from the response and the frame is drawn from the starting
\* offset 0, whatever the cursor was.
RefreshResetsCursor ==
    [][last_poll' = "ReadyOk" =>
        /\ str' = parse_response(response')
        /\ out' = Draw(str', 0).out
        /\ scroll_offset' = Draw(str', 0).scroll_offset]_vars

\* C5 amended: on an iteration whose poll returns Ready(Ok) the line is
\* recomputed from the response before the frame is drawn, and the cursor is
\* not reset: the frame is the window of the new line at the cursor's value
\* from before the iteration, and the cursor then moves on from that value.
RefreshKeepsCursor ==
    [][last_poll' = "ReadyOk" =>
        /\ str' = parse_response(response')
        /\ str' # <<>> =>
              /\ out' = << Window(str', scroll_offset, scroll_width) >>
              /\ scroll_offset' \in {scroll_offset + 1, 1}
        /\ str' = <<>> => (out' = <<>> /\ scroll_offset' = scroll_offset)]_vars

\* A refresh was drawn at a cursor other than the starting offset.
RefreshKeepsCursor_Witness ==
    /\ last_poll = "ReadyOk"
    /\ requests_started = 2
    /\ scroll_offset > 2
    /\ out # <<>>
    /\ out # << Window(str, 0, scroll_width) >>

\* C6: an iteration that finds Idle no more than the refresh interval after
\* the instant it carries changes neither status nor line and polls nothing;
\* one that finds it later sets InitiateUpdate and creates no request; the
\* request is created by the iteration after that.
IdleUntilIntervalExceeded ==
    /\ [][status.tag = "Idle" =>
            /\ str' = str
            /\ last_poll' = "none"
            /\ requests_started' = requests_started
            /\ futures' = {}
            /\ (now - status.instant <= update_interval) => status' = status
            /\ (now - status.instant > update_interval) => status' = InitiateUpdate]_vars
    /\ [][status.tag = "InitiateUpdate" =>
            /\ status'.tag = "UpdateInProgress"
            /\ requests_started' = requests_started + 1]_vars

\* Idle has been kept by an iteration and the interval is reached or passed.
IdleUntilIntervalExceeded_Witness ==
    /\ status.tag = "Idle"
    /\ last_poll = "none"
    /\ now - status.instant >= update_interval

\* C7: the line changes only on an iteration that found UpdateInProgress and
\* whose poll returned Ready(Ok); that iteration sets Idle and the frame it
\* prints is a window of the new line (it prints none when the new line is
\* empty). No other iteration changes the line.
LineChangesOnlyOnCompletion ==
    [][/\ str' # str =>
            /\ status.tag = "UpdateInProgress"
            /\ last_poll' = "ReadyOk"
            /\ status'.tag = "Idle"
            /\ out' = (IF str' = <<>> THEN <<>>
                       ELSE << Window(str', scroll_offset, scroll_width) >>)
       /\ last_poll' # "ReadyOk" => str' = str]_vars

\* The first completion has replaced the empty line.
LineChangesOnlyOnCompletion_Witness ==
    /\ requests_started = 1
    /\ last_poll = "ReadyOk"
    /\ status.tag = "Idle"
    /\ str # <<>>
    /\ out = << Window(str, 0, scroll_width) >>

\* C8: no future is polled after it returned Ready, an iteration polls at
\* most once, and the future is dropped by the iteration in which it
\* returned Ready.
HandleConsumedOnce ==
    /\ [](~polled_after_ready)
    /\ [](polls_in_tick <= 1)
    /\ [](last_poll \in Ready => futures = {})
    /\ [][(last_poll \in Ready) => (polls_in_tick' = 0)]_vars

\* The iteration after a completion has run without polling.
HandleConsumedOnce_Witness ==
    /\ status.tag = "Idle"
    /\ last_poll = "none"
    /\ polls_in_tick = 0
    /\ requests_started = 2

\* C9: an iteration whose poll returns Pending leaves status unchanged and,
\* when the line is not empty, prints one frame, the window at the cursor,
\* and moves the cursor.
AnimationWhilePending ==
    [][last_poll' = "Pending" =>
        /\ status' = status
        /\ str # <<>> =>
              /\ Len(out') = 1
              /\ out'[1] = Window(str, scroll_offset, scroll_width)
              /\ scroll_offset' # scroll_offset
              /\ scroll_offset' \in {scroll_offset + 1, 1}]_vars

\* A frame was printed by an iteration whose poll returned Pending.
AnimationWhilePending_Witness ==
    /\ last_poll = "Pending"
    /\ status.tag = "UpdateInProgress"
    /\ out # <<>>
    /\ scroll_offset > 1

\* C10 as stated: a printed frame has min(scroll_width, L) characters.
FrameLengthIsMin ==
    out # <<>> => Len(out[1]) = Min(scroll_width, CharCount(str))

\* C10 amended: a printed frame has exactly scroll_width characters, also
\* when the line has fewer; a frame is printed exactly when the line is not
\* empty.
FrameLengthIsWidth ==
    /\ out # <<>> => (CharCount(str) > 0 /\ Len(out[1]) = scroll_width)
    /\ (pc = "loop" /\ tick > 0 /\ CharCount(str) > 0) => out # <<>>

\* A frame of a line shorter than the width.
FrameLengthIsWidth_Witness ==
    /\ out # <<>>
    /\ CharCount(str) < scroll_width
    /\ Len(out[1]) = scroll_width

\* The 0-based index into the line of the k-th character (k from 1) of a
\* window that starts at cursor c of a line of L characters.
CircularIndex(c, k, L) == (c + (k - 1)) % L

Range(f) == { f[i] : i \in DOMAIN f }

\* C11: the k-th character of a printed frame is the character at position
\* (c + k) mod L of the line, c being the cursor before the frame; a window
\* of width L at a reachable cursor takes its characters from every position
\* of the line exactly once.
WindowIsCircular ==
    /\ [][out' # <<>> =>
            \A k \in 1..scroll_width :
                out'[1][k] = str'[CircularIndex(scroll_offset, k, CharCount(str')) + 1]]_vars
    /\ [](str # <<>> =>
            LET L == CharCount(str)
                W == Window(str, scroll_offset, L)
            IN  /\ Len(W) = L
                /\ \A k \in 1..L : W[k] = str[CircularIndex(scroll_offset, k, L) + 1]
                /\ { CircularIndex(scroll_offset, k, L) : k \in 1..L } = 0..(L - 1))

\* A frame drawn at the last character of a line with a two-byte character:
\* it starts with the last character and goes on with the first.
WindowIsCircular_Witness ==
    /\ out # <<>>
    /\ ByteLen(str) > CharCount(str)
    /\ scroll_offset = CharCount(str)
    /\ out[1][1] = str[CharCount(str)]
    /\ out[1][2] = str[1]

\* C14: an iteration that reaches the drawing step with an empty line
\* prints nothing and leaves the cursor unchanged, and its match has run: a
\* request was created from InitiateUpdate, or a future in progress was polled.
EmptyLineSkipsDrawing ==
    [][(tick' # tick /\ pc' = "loop" /\ str' = <<>>) =>
        /\ out' = <<>>
        /\ scroll_offset' = scroll_offset
        /\ status.tag = "InitiateUpdate" =>
              (status'.tag = "UpdateInProgress" /\ requests_started' = requests_started + 1)
        /\ status.tag = "UpdateInProgress" => polls_in_tick' = 1
        /\ status.tag = "Idle" =>
              status' = (IF now - status.instant > update_interval
                         THEN InitiateUpdate ELSE status)]_vars

\* A response without departures has replaced a line that was scrolling.
EmptyLineSkipsDrawing_Witness ==
    /\ str = <<>>
    /\ last_poll = "ReadyOk"
    /\ out = <<>>
    /\ scroll_offset > 1

\* C19: when a request is created after an earlier one, more than the
\* refresh interval has passed since the earlier one was created.
RequestsAnIntervalApart ==
    [][(requests_started' = requests_started + 1 /\ requests_started >= 1) =>
        now - last_started_at > update_interval]_vars

\* A third request was created, the second one after a first that was
\* pending for longer than the interval.
RequestsAnIntervalApart_Witness ==
    /\ requests_started = 3
    /\ status.tag = "UpdateInProgress"
    /\ last_poll = "none"
    /\ last_started_at > 3 * update_interval

\* Bytes of the longest line the responses can produce.
MaxLineBytes == CHOOSE m \in { ByteLen(parse_response(p)) : p \in Payloads } :
                    \A p \in Payloads : ByteLen(parse_response(p)) <= m

\* C20 as stated: in every state the cursor is bounded by the byte length of
\* the line, and a frame's characters are characters of the line.
CursorWithinLineBytes ==
    /\ [](scroll_offset <= ByteLen(str))
    /\ [][out' # <<>> => Range(out'[1]) \subseteq Range(str')]_vars

\* C20 amended: a frame has scroll_width characters, all of them characters
\* of the line; when the line is not empty the cursor is, after the
\* iteration, below the line's byte length; when the line is empty the cursor
\* keeps its value; the cursor never reaches the byte length of the longest
\* line.
DrawingNeverFails ==
    /\ [](str # <<>> => scroll_offset < ByteLen(str))
    /\ [](scroll_offset < MaxLineBytes)
    /\ [][str' = <<>> => scroll_offset' = scroll_offset]_vars
    /\ [][out' # <<>> =>
            /\ CharCount(str') > 0
            /\ DOMAIN out'[1] = 1..scroll_width
            /\ Range(out'[1]) \subseteq Range(str')]_vars

\* The 13-character line has replaced a longer one while the cursor was 14:
\* the frame is the window at 14 and the cursor went back to 1.
DrawingNeverFails_Witness ==
    /\ last_poll = "ReadyOk"
    /\ requests_started >= 2
    /\ CharCount(str) = 13
    /\ scroll_offset = 1
    /\ out = << Window(str, 14, scroll_width) >>

\* The line of one departure with empty symbol and direction whose status
\* token is tok.
TokenLine(tok) == LitSep \o tok \o LitMid \o LitEnd

\* The countdown string of a response made for one countdown input.
IsCountdownCase ==
    /\ pc = "rendered"
    /\ Len(response) = 1
    /\ response[1].symbol = <<>>
    /\ response[1].direction = <<>>

\* The digits of c after an optional sign.
Unsigned(c) == IF c # <<>> /\ c[1] \in {43, 45} THEN Tail(c) ELSE c

\* c is an optional sign followed by one or more digits.
IsSignedDigits(c) ==
    /\ Unsigned(c) # <<>>
    /\ \A i \in DOMAIN Unsigned(c) : IsDigit(Unsigned(c)[i])

RECURSIVE StripZeros(_)
StripZeros(q) == IF q # <<>> /\ Head(q) = 48 THEN StripZeros(Tail(q)) ELSE q

RECURSIVE DigitsValue(_)
\* The number written by a string of digits (of at most nine digits).
DigitsValue(q) ==
    IF q = <<>> THEN 0
    ELSE DigitsValue(SubSeq(q, 1, Len(q) - 1)) * 10 + (q[Len(q)] - 48)

\* The token the claim gives: "N min" for a string that is an integer N > 0.
ClaimedToken(c) ==
    IF c = LitSentinel THEN LitCancelled
    ELSE IF c = <<>> THEN LitUnknown
    ELSE IF IsSignedDigits(c) /\ c[1] # 45 /\ DigitsValue(Unsigned(c)) > 0
         THEN Decimal(DigitsValue(Unsigned(c))) \o LitMin
         ELSE LitNow

\* C12 as stated, for the countdown strings of at most nine characters:
\* "-9999" gives "cancelled", "" gives "unknown", an integer N > 0 gives the
\* decimal rendering of N followed by " min", everything else gives "now".
CountdownRendersNumber ==
    (IsCountdownCase /\ Len(response[1].countdown) <= 9) =>
        str = TokenLine(ClaimedToken(response[1].countdown))

RECURSIVE DigitsLeq(_, _)
\* p <= q for two digit strings of the same length.
DigitsLeq(p, q) ==
    IF p = <<>> THEN TRUE
    ELSE IF Head(p) # Head(q) THEN Head(p) < Head(q)
    ELSE DigitsLeq(Tail(p), Tail(q))

\* c is a positive number within i32: no '-', digits only, not all zeros, and
\* at most 2147483647 once leading zeros are dropped.
IsPositiveI32(c) ==
    /\ IsSignedDigits(c)
    /\ c[1] # 45
    /\ LET m == StripZeros(Unsigned(c))
       IN  /\ m # <<>>
           /\ \/ Len(m) < 10
              \/ Len(m) = 10 /\ DigitsLeq(m, <<50, 49, 52, 55, 52, 56, 51, 54, 52, 55>>)

\* The token the program gives.
EchoedToken(c) ==
    IF c = LitSentinel THEN LitCancelled
    ELSE IF c = <<>> THEN LitUnknown
    ELSE IF IsPositiveI32(c) THEN c \o LitMin
    ELSE LitNow

\* C12 amended: "-9999" gives "cancelled", "" gives "unknown", a string that
\* is a positive i32 gives the string itself followed by " min" (sign and
\* leading zeros included), and every other string gives "now": an integer
\* <= 0, a string that is no integer, and an integer outside i32.
CountdownEchoesString ==
    IsCountdownCase => str = TokenLine(EchoedToken(response[1].countdown))

\* "+5" was rendered as "+5 min".
CountdownEchoesString_Witness ==
    /\ IsCountdownCase
    /\ response[1].countdown = <<43, 53>>
    /\ str = TokenLine(<<43, 53, 32, 109, 105, 110>>)

\* Characters of the segment of one departure.
SegmentLen(dep) ==
    Len(LitSep) + Len(countdown(dep.countdown)) + Len(LitMid) + Len(dep.symbol)
        + Len(LitEnd) + Len(dep.direction)

RECURSIVE SegmentStart(_, _)
\* Position in the line at which the i-th segment starts.
SegmentStart(data, i) ==
    IF i = 1 THEN 1 ELSE SegmentStart(data, i - 1) + SegmentLen(data[i - 1])

\* Number of places at which "::" occurs in s.
ColonPairs(q) == Cardinality({ i \in 1..(Len(q) - 1) : q[i] = 58 /\ q[i + 1] = 58 })

\* C13: the line of n departures is n segments in the order of the
\* departures, the i-th being " :: (" token ") [" symbol "] " direction of the
\* i-th departure; "::" occurs n times; for n = 0 the line is empty.
RenderKeepsOrder ==
    pc = "rendered" =>
        /\ Len(str) = SegmentStart(response, Len(response) + 1) - 1
        /\ \A i \in 1..Len(response) :
              SubSeq(str, SegmentStart(response, i), SegmentStart(response, i + 1) - 1)
                = LitSep \o countdown(response[i].countdown) \o LitMid
                    \o response[i].symbol \o LitEnd \o response[i].direction
        /\ ColonPairs(str) = Len(response)
        /\ response = <<>> => str = <<>>

\* Three departures, the first two different, were rendered.
RenderKeepsOrder_Witness ==
    /\ pc = "rendered"
    /\ Len(response) = 3
    /\ response[1] # response[2]
    /\ ColonPairs(str) = 3

HelpArgs == { ArgHelpLong, ArgHelpShort }
LiveArgs == { ArgLiveLong, ArgLiveShort }
Ended == pc \in { "exited", "panicked" }

\* a has "-station" followed by an integer.
HasStation(a) ==
    \E i \in 1..(Len(a) - 1) : a[i] = ArgStation /\ ParseI32(a[i + 1]).ok

\* a has an argument that is no option and does not follow -n or -station.
HasUnknownFlag(a) ==
    \E i \in 1..Len(a) :
        /\ a[i] \notin HelpArgs \cup LiveArgs \cup { ArgN, ArgStation }
        /\ ~(i > 1 /\ a[i - 1] \in { ArgN, ArgStation })

RECURSIVE WellFormedOptions(_)
\* a consists of -l/--live and of -n/-station each followed by an integer.
WellFormedOptions(a) ==
    IF a = <<>> THEN TRUE
    ELSE IF Head(a) \in LiveArgs THEN WellFormedOptions(Tail(a))
    ELSE IF Head(a) \in { ArgN, ArgStation }
         THEN /\ Len(a) >= 2
              /\ ParseI32(a[2]).ok
              /\ WellFormedOptions(Tail(Tail(a)))
         ELSE FALSE

\* a has --help or -h with nothing but well-formed options before it.
HelpReached(a) ==
    \E i \in 1..Len(a) : a[i] \in HelpArgs /\ WellFormedOptions(SubSeq(a, 1, i - 1))

\* C15 as stated: with no station identifier or with an unknown flag, the
\* process ends with a non-zero status and no request is made.
BadArgsEndNonZero ==
    (~HasStation(argv) \/ HasUnknownFlag(argv)) =>
        /\ requests_started = 0
        /\ Ended => exit_code # 0

\* C15 amended: with no station identifier or with an unknown flag, no
\* request is made and neither the one-shot fetch nor the loop is reached;
\* the process ends with a non-zero status and prints nothing, unless --help
\* or -h comes after well-formed options only: then it prints the usage and
\* ends with status 0.
BadArgsMakeNoRequest ==
    (~HasStation(argv) \/ HasUnknownFlag(argv)) =>
        /\ requests_started = 0
        /\ futures = {}
        /\ pc \notin { "oneshot", "loop" }
        /\ (Ended /\ ~HelpReached(argv)) => (exit_code # 0 /\ out = <<>>)
        /\ (Ended /\ HelpReached(argv)) => (exit_code = 0 /\ out = << UsageText(n) >>)

\* An unknown argument after a well-formed -l ended the process.
BadArgsMakeNoRequest_Witness ==
    /\ pc = "panicked"
    /\ Len(argv) = 3
    /\ argv[1] \in LiveArgs
    /\ argv[2] = <<120>>
    /\ exit_code = PanicStatus
    /\ live

\* C16 as stated: with --help or -h anywhere in the arguments, the process
\* prints the usage, ends with status 0 and makes no request.
AnyHelpExitsZero ==
    (\E i \in 1..Len(argv) : argv[i] \in HelpArgs) =>
        /\ requests_started = 0
        /\ Ended => (exit_code = 0 /\ out = << UsageText(n) >>)

\* C16 amended: with --help or -h after well-formed options only, the
\* process prints the usage, ends with status 0 and makes no request,
\* whatever follows; with --help or -h anywhere, no request is made, and the
\* process ends with status 0 only in the first case.
ReachedHelpExitsZero ==
    /\ HelpReached(argv) =>
          /\ pc \in { "args", "exited" }
          /\ Ended => (exit_code = 0 /\ out = << UsageText(n) >>)
    /\ (\E i \in 1..Len(argv) : argv[i] \in HelpArgs) =>
          /\ requests_started = 0
          /\ pc \notin { "oneshot", "loop" }
          /\ (Ended /\ ~HelpReached(argv)) => (exit_code # 0 /\ out = <<>>)

\* -n 7 --help printed the usage with the n just set.
ReachedHelpExitsZero_Witness ==
    /\ pc = "exited"
    /\ exit_code = 0
    /\ Len(argv) = 3
    /\ argv[1] = ArgN
    /\ argv[3] \in HelpArgs
    /\ n = 7
    /\ out = << UsageText(7) >>

\* The arguments are well-formed options with a station and without
\* -l/--live and --help/-h.
IsOneShot(a) ==
    /\ WellFormedOptions(a)
    /\ HasStation(a)
    /\ \A i \in 1..Len(a) : a[i] \notin LiveArgs

\* C17: in one-shot mode the loop is never entered and one request is
\* made; when it succeeds the process prints one line, the rendering of the
\* response, and ends with status 0; when it fails the process prints
\* nothing and ends with a non-zero status.
OneShotFetchesOnce ==
    IsOneShot(argv) =>
        /\ pc \in { "args", "oneshot", "exited" }
        /\ tick = 0
        /\ requests_started = (IF pc = "exited" THEN 1 ELSE 0)
        /\ pc = "exited" =>
              /\ last_poll \in Ready
              /\ last_poll = "ReadyOk" =>
                    (exit_code = 0 /\ out = << parse_response(response) >>)
              /\ last_poll = "ReadyErr" => (exit_code # 0 /\ out = <<>>)

\* A one-shot run has printed the line of a response with departures.
OneShotFetchesOnce_Witness ==
    /\ IsOneShot(argv)
    /\ pc = "exited"
    /\ exit_code = 0
    /\ requests_started = 1
    /\ response # <<>>
    /\ out = << parse_response(response) >>

\* C18: when iterations keep occurring and every request completes
\* successfully, status does not stay InitiateUpdate, UpdateInProgress or
\* Idle for ever, a request is created again and again, and the line is
\* replaced again and again.
RefreshRecurs ==
    /\ []<>(status.tag # "InitiateUpdate")
    /\ []<>(status.tag # "UpdateInProgress")
    /\ []<>(status.tag # "Idle")
    /\ []<>(status.tag = "UpdateInProgress" /\ last_poll = "none")
    /\ []<>(last_poll = "ReadyOk")

\* A response has replaced a line of which frames had been drawn.
RefreshRecurs_Witness ==
    /\ status.tag = "Idle"
    /\ last_poll = "ReadyOk"
    /\ str # <<>>
    /\ scroll_offset > 2

====
